---- MODULE Spec2Model ----
(***************************************************************************)
(* SCD type 2 load of the ETL package (etl/main.py, etl/utils.py).         *)
(*                                                                         *)
(* A dataframe is a sequence of rows; a row is a function from column      *)
(* names to values.  Each target table keeps its rows in insertion order   *)
(* and owns a surrogate-key sequence.  One tracked business column stands  *)
(* for the business columns of each table: the nullable "phone" of         *)
(* user_profiling and the never-null "total_amount" of                     *)
(* transaction_summary; the remaining business columns are compared and    *)
(* copied by the same loop and the same statements.  A behaviour of Spec   *)
(* is a sequence of runs of one loader against its table; SpecDup runs     *)
(* load_user_profiling on candidates that repeat a natural key,            *)
(* SpecRecovery runs a loader once more, SpecMain runs main: both loaders  *)
(* and the report of the run date.                                         *)
(***************************************************************************)
EXTENDS Integers, Sequences, FiniteSets, TLC

\* Bounds of the model.
MaxKey == 2
MaxVal == 1
MaxRuns == 2
MaxDate == 2

\* NULL / NaN / NaT / None of a dataframe cell or of a database column.
Null == -1

Tables == {"user_profiling", "transaction_summary"}

\* Column declarations handed to CREATE TABLE and to INSERT (no surrogate key).
user_profiling_columns ==
  <<"user_id", "phone", "effective_start_date", "effective_end_date", "is_active">>

transaction_summary_columns ==
  <<"membership_type", "total_amount", "effective_start_date", "effective_end_date", "is_active">>

\* Arguments the two loaders pass for their table.
Columns(t) ==
  IF t = "user_profiling" THEN user_profiling_columns ELSE transaction_summary_columns

NaturalKey(t) ==
  IF t = "user_profiling" THEN "user_id" ELSE "membership_type"

SurrogateKey(t) ==
  IF t = "user_profiling" THEN "user_sk" ELSE "transaction_summary_sk"

\* Natural keys a candidate can hold: user ids, and the two membership types
\* the transform names (Basic, Premium), written 1 and 2 in their sort order.
Keys(t) ==
  IF t = "user_profiling" THEN 1..MaxKey ELSE {1, 2}

\* Values a tracked business column of the candidate can hold after the
\* transform's type coercion: the phone of a user is None or a string (one
\* string stands for all of them), the numeric columns of
\* transaction_summary are never missing (fillna(0)).
AttrVals(t) ==
  IF t = "user_profiling" THEN {Null, 1} ELSE 0..MaxVal

----------------------------------------------------------------------------
\* Sequence helpers.

Range(s) == {s[i] : i \in DOMAIN s}

RECURSIVE SortedSeq(_)
SortedSeq(S) ==
  IF S = {} THEN <<>>
  ELSE LET m == CHOOSE x \in S : \A y \in S : x <= y
       IN <<m>> \o SortedSeq(S \ {m})

RECURSIVE Flatten(_)
Flatten(ss) ==
  IF ss = <<>> THEN <<>> ELSE Head(ss) \o Flatten(Tail(ss))

\* df[cols]: projection of every row on a list of columns.
Project(df, cols) ==
  [i \in DOMAIN df |-> [c \in Range(cols) |-> df[i][c]]]

----------------------------------------------------------------------------
\* Candidate snapshots: at most one row per natural key.
Snapshots(t) == UNION {[D -> AttrVals(t)] : D \in SUBSET Keys(t)}

\* The dataframe the transform returns for a snapshot: one row per entity,
\* natural key first, business columns after it, in key order.
transform(t, s) ==
  LET ks == SortedSeq(DOMAIN s)
  IN [i \in DOMAIN ks |->
        [c \in {NaturalKey(t), Columns(t)[2]} |->
           IF c = NaturalKey(t) THEN ks[i] ELSE s[ks[i]]]]

\* df["effective_end_date"] = now instead of NaT
AddHistoryColumns_EndNow(df, clock) ==
  [i \in DOMAIN df |->
     [c \in DOMAIN df[i] \cup {"effective_start_date", "effective_end_date", "is_active"} |->
        CASE c = "effective_start_date" -> clock
          [] c = "effective_end_date" -> clock
          [] c = "is_active" -> TRUE
          [] OTHER -> df[i][c]]]

\* df["effective_start_date"] = now; df["effective_end_date"] = NaT;
\* df["is_active"] = True
AddHistoryColumns(df, clock) ==
  [i \in DOMAIN df |->
     [c \in DOMAIN df[i] \cup {"effective_start_date", "effective_end_date", "is_active"} |->
        CASE c = "effective_start_date" -> clock
          [] c = "effective_end_date" -> Null
          [] c = "is_active" -> TRUE
          [] OTHER -> df[i][c]]]

----------------------------------------------------------------------------
\* The database: tables, sequences, clock; the report files, one per run date.

\* Run dates main is started with (args.date).
Dates == 1..MaxDate

VARIABLES
  catalog,        \* tables (with their sequence) that exist in the OLAP file
  table,          \* table name -> rows in insertion order
  seq,            \* table name -> next value of the surrogate-key sequence
  now,            \* the clock: value the next datetime.now() returns
  cur,            \* the target table of the loader under execution
  pc,             \* position of the loader
  df,             \* the candidate dataframe, history columns added
  existing_df,    \* active rows read at the start of the run
  rows_to_insert, \* classification of the run
  rows_to_update,
  deleted_rows,
  err,            \* exception that ended the run, "none" while none
  runs,           \* loads started so far
  table0,         \* rows of the target table when the run started
  prev,           \* outcome and candidate of the previous run
  report,         \* run date -> sheets of reports/{date}.xlsx, <<>> while no file
  report0,        \* the report files when the run of main started
  date,           \* args.date of the run of main
  mpc,            \* position of main
  mruns           \* runs of main started so far

\* The state of main and of the files it writes.
mainvars == <<report, report0, date, mpc, mruns>>

vars ==
  <<catalog, table, seq, now, cur, pc, df, existing_df, rows_to_insert,
    rows_to_update, deleted_rows, err, runs, table0, prev, report, report0,
    date, mpc, mruns>>

\* CREATE OR REPLACE SEQUENCE ... START 1: the sequence restarts on every call.
init_scd_table_in_olap_Replace(t, cat, tbl, sq) ==
  [catalog |-> cat \cup {t},
   table |-> IF t \in cat THEN tbl ELSE [tbl EXCEPT ![t] = <<>>],
   seq |-> [sq EXCEPT ![t] = 1]]

\* CREATE SEQUENCE IF NOT EXISTS ... START 1; CREATE TABLE IF NOT EXISTS ...
init_scd_table_in_olap(t, cat, tbl, sq) ==
  IF t \in cat
  THEN [catalog |-> cat, table |-> tbl, seq |-> sq]
  ELSE [catalog |-> cat \cup {t},
        table |-> [tbl EXCEPT ![t] = <<>>],
        seq |-> [sq EXCEPT ![t] = 1]]

\* SELECT * FROM t WHERE is_active = 1
IsActiveRow(r) == r["is_active"] = TRUE

read_scd_table_in_olap(rows) == SelectSeq(rows, IsActiveRow)

\* Series.eq of pandas, cell by cell: a missing value equals nothing, not
\* even another missing value.
PandasEq(a, b) == a # Null /\ b # Null /\ a = b

\* Name of an overlapping column of the right frame after the merge.
OldName(c) ==
  CASE c = "phone" -> "phone_old"
    [] c = "total_amount" -> "total_amount_old"
    [] c = "effective_start_date" -> "effective_start_date_old"
    [] c = "effective_end_date" -> "effective_end_date_old"
    [] c = "is_active" -> "is_active_old"

\* Columns of pd.merge(new_df, existing_df, on=[natural_key],
\* suffixes=("", "_old"), indicator=True): the left columns, the right columns
\* without the key, the indicator.
MergedColumns(t) ==
  Columns(t) \o <<SurrogateKey(t)>>
    \o [i \in 1..(Len(Columns(t)) - 1) |-> OldName(Columns(t)[i + 1])]
    \o <<"_merge">>

\* One row of the outer join; l or r is Null when the side has no row.
MergedRow(t, k, l, r, ind) ==
  [c \in Range(MergedColumns(t)) |->
     CASE c = NaturalKey(t) -> k
       [] c = "_merge" -> ind
       [] c = SurrogateKey(t) -> IF ind = "left_only" THEN Null ELSE r[c]
       [] c \in Range(Columns(t)) -> IF ind = "right_only" THEN Null ELSE l[c]
       [] OTHER ->
            IF ind = "left_only" THEN Null
            ELSE LET o == CHOOSE x \in Range(Columns(t)) \ {NaturalKey(t)} : OldName(x) = c
                 IN r[o]]

\* pd.merge(..., how="outer", indicator=True): keys in sorted order, every
\* pairing of the left and right rows of a key.
OuterMerge(t, new_df, old_df) ==
  LET nk == NaturalKey(t)
      ks == SortedSeq({new_df[i][nk] : i \in DOMAIN new_df}
                        \cup {old_df[i][nk] : i \in DOMAIN old_df})
      ForKey(k) ==
        LET HasKey(row) == row[nk] = k
            L == SelectSeq(new_df, HasKey)
            R == SelectSeq(old_df, HasKey)
        IN IF R = <<>> THEN [i \in DOMAIN L |-> MergedRow(t, k, L[i], Null, "left_only")]
           ELSE IF L = <<>> THEN [j \in DOMAIN R |-> MergedRow(t, k, Null, R[j], "right_only")]
           ELSE [p \in 1..(Len(L) * Len(R)) |->
                   MergedRow(t, k, L[((p - 1) \div Len(R)) + 1],
                             R[((p - 1) % Len(R)) + 1], "both")]
  IN Flatten([i \in DOMAIN ks |-> ForKey(ks[i])])

\* new_df.columns[1:-3]
columns_to_compare(t) == SubSeq(Columns(t), 2, Len(Columns(t)) - 3)

\* update_condition |= ~merged_df[col].eq(merged_df[col + "_old"]), per row
update_condition(t, m) ==
  \E i \in DOMAIN columns_to_compare(t) :
    ~PandasEq(m[columns_to_compare(t)[i]], m[OldName(columns_to_compare(t)[i])])

\* compare_tables with the insert set taken as every row that has a left
\* side (`!= 'right_only'` for `== 'left_only'`).
compare_tables_InsertMatched(t, new_df, old_df) ==
  LET merged_df == OuterMerge(t, new_df, old_df)
      HasLeft(m) == m["_merge"] # "right_only"
      RightOnly(m) == m["_merge"] = "right_only"
      Changed(m) == m["_merge"] = "both" /\ update_condition(t, m)
  IN [rows_to_insert |-> Project(SelectSeq(merged_df, HasLeft), Columns(t)),
      rows_to_update |-> SelectSeq(merged_df, Changed),
      deleted_rows |-> SelectSeq(merged_df, RightOnly)]

\* compare_tables without `_merge == 'both'` in the update filter.
compare_tables_UpdateAnySide(t, new_df, old_df) ==
  LET merged_df == OuterMerge(t, new_df, old_df)
      LeftOnly(m) == m["_merge"] = "left_only"
      RightOnly(m) == m["_merge"] = "right_only"
      Changed(m) == update_condition(t, m)
  IN [rows_to_insert |-> Project(SelectSeq(merged_df, LeftOnly), Columns(t)),
      rows_to_update |-> SelectSeq(merged_df, Changed),
      deleted_rows |-> SelectSeq(merged_df, RightOnly)]

compare_tables(t, new_df, old_df) ==
  LET merged_df == OuterMerge(t, new_df, old_df)
      LeftOnly(m) == m["_merge"] = "left_only"
      RightOnly(m) == m["_merge"] = "right_only"
      Changed(m) == m["_merge"] = "both" /\ update_condition(t, m)
  IN [rows_to_insert |-> Project(SelectSeq(merged_df, LeftOnly), Columns(t)),
      rows_to_update |-> SelectSeq(merged_df, Changed),
      deleted_rows |-> SelectSeq(merged_df, RightOnly)]

\* classify without the comparison: every candidate row is taken as new.
classify_NeverCompare(t, new_df, old_df) ==
  [rows_to_insert |-> new_df, rows_to_update |-> <<>>, deleted_rows |-> <<>>]

\* Lines 226-231 of the loaders: compare only when active rows exist.
classify(t, new_df, old_df) ==
  IF old_df # <<>>
  THEN compare_tables(t, new_df, old_df)
  ELSE [rows_to_insert |-> new_df, rows_to_update |-> <<>>, deleted_rows |-> <<>>]

\* The expire statement with effective_start_date for effective_end_date.
expiring_scd_table_in_olap_StampsStart(t, rows, surrogate_key_values, clock) ==
  [i \in DOMAIN rows |->
     IF rows[i][SurrogateKey(t)] \in Range(surrogate_key_values)
     THEN [rows[i] EXCEPT !["effective_start_date"] = clock, !["is_active"] = FALSE]
     ELSE rows[i]]

\* UPDATE t SET effective_end_date = now, is_active = 0 WHERE sk IN (...)
expiring_scd_table_in_olap(t, rows, surrogate_key_values, clock) ==
  [i \in DOMAIN rows |->
     IF rows[i][SurrogateKey(t)] \in Range(surrogate_key_values)
     THEN [rows[i] EXCEPT !["effective_end_date"] = clock, !["is_active"] = FALSE]
     ELSE rows[i]]

\* tuple(row.values()) of a record of a dataframe with the given column order
RowValues(row, frame_columns) ==
  [j \in DOMAIN frame_columns |-> row[frame_columns[j]]]

\* The insert with a surrogate key default that does not advance the sequence.
inserting_scd_table_in_olap_SameKey(t, rows, sq, columns, data, frame_columns) ==
  LET bulk_data == [i \in DOMAIN data |-> RowValues(data[i], frame_columns)]
  IN IF \E i \in DOMAIN bulk_data : Len(bulk_data[i]) # Len(columns)
     THEN [ok |-> FALSE, rows |-> rows, seq |-> sq]
     ELSE [ok |-> TRUE,
           rows |-> rows \o
             [i \in DOMAIN bulk_data |->
                [c \in Range(columns) \cup {SurrogateKey(t)} |->
                   IF c = SurrogateKey(t) THEN sq
                   ELSE LET j == CHOOSE x \in DOMAIN columns : columns[x] = c
                        IN bulk_data[i][j]]],
           seq |-> sq]

\* INSERT INTO t (columns) VALUES (?, ...) executed for every tuple of
\* bulk_data; the surrogate key defaults to NEXTVAL.  The statement takes
\* exactly one value per column: any other tuple raises and the transaction
\* is rolled back.
inserting_scd_table_in_olap(t, rows, sq, columns, data, frame_columns) ==
  LET bulk_data == [i \in DOMAIN data |-> RowValues(data[i], frame_columns)]
  IN IF \E i \in DOMAIN bulk_data : Len(bulk_data[i]) # Len(columns)
     THEN [ok |-> FALSE, rows |-> rows, seq |-> sq]
     ELSE [ok |-> TRUE,
           rows |-> rows \o
             [i \in DOMAIN bulk_data |->
                [c \in Range(columns) \cup {SurrogateKey(t)} |->
                   IF c = SurrogateKey(t) THEN sq + i - 1
                   ELSE LET j == CHOOSE x \in DOMAIN columns : columns[x] = c
                        IN bulk_data[i][j]]],
           seq |-> sq + Len(bulk_data)]

\* Column of a dataframe as a list: rows_to_update["user_sk"]
Column(frame, c) == [i \in DOMAIN frame |-> frame[i][c]]

----------------------------------------------------------------------------
\* The loaders (load_user_profiling, load_transaction_summary), one step per
\* committed phase.

\* The first statement whose `if not ... .empty` guard holds, from a position on.
PhaseFrom(p, upd, del, ins) ==
  IF p = "start" /\ upd # <<>> THEN "expire_updated"
  ELSE IF p \in {"start", "updated"} /\ del # <<>> THEN "expire_deleted"
  ELSE IF ins # <<>> THEN "insert_new"
  ELSE "returned"

Init ==
  /\ catalog = {}
  /\ table = [t \in Tables |-> <<>>]
  /\ seq = [t \in Tables |-> 0]
  /\ now = 1
  /\ cur \in Tables
  /\ pc = "ready"
  /\ df = <<>>
  /\ existing_df = <<>>
  /\ rows_to_insert = <<>>
  /\ rows_to_update = <<>>
  /\ deleted_rows = <<>>
  /\ err = "none"
  /\ runs = 0
  /\ table0 = <<>>
  /\ prev = [ok |-> FALSE, df |-> <<>>, interrupted |-> {}]
  /\ report = [d \in Dates |-> <<>>]
  /\ report0 = [d \in Dates |-> <<>>]
  /\ date = 1
  /\ mpc = "idle"
  /\ mruns = 0

\* Natural keys of rows_to_update that a stopped run left without an active
\* row: their expire was committed, their replacement was not inserted.
LeftWithoutActive ==
  IF pc # "raised" THEN {}
  ELSE {k \in {rows_to_update[i][NaturalKey(cur)] : i \in DOMAIN rows_to_update} :
          \A j \in DOMAIN table[cur] :
            table[cur][j][NaturalKey(cur)] = k => table[cur][j]["is_active"] = FALSE}

\* Lines 218-231 / 255-268: stamp the candidate, ensure the table, read the
\* active rows, classify.
Load(t, candidate) ==
  /\ LET new_df == AddHistoryColumns(candidate, now)
         db == init_scd_table_in_olap(t, catalog, table, seq)
         old_df == read_scd_table_in_olap(db.table[t])
         c == classify(t, new_df, old_df)
     IN /\ df' = new_df
        /\ catalog' = db.catalog
        /\ table' = db.table
        /\ seq' = db.seq
        /\ existing_df' = old_df
        /\ rows_to_insert' = c.rows_to_insert
        /\ rows_to_update' = c.rows_to_update
        /\ deleted_rows' = c.deleted_rows
        /\ table0' = db.table[t]
        /\ pc' = PhaseFrom("start", c.rows_to_update, c.deleted_rows, c.rows_to_insert)
  /\ now' = now + 1
  /\ err' = "none"
  /\ runs' = runs + 1
  /\ prev' = [ok |-> pc = "returned", df |-> df, interrupted |-> LeftWithoutActive]
  /\ cur' = t

\* A run of one loader on a candidate with one row per natural key.
LoadBegin ==
  /\ pc \in {"ready", "returned", "raised"}
  /\ runs < MaxRuns
  /\ \E s \in Snapshots(cur) : Load(cur, transform(cur, s))
  /\ UNCHANGED mainvars

\* Line 235 / 272: expire the active rows of the changed keys.
ExpireUpdated ==
  /\ pc = "expire_updated"
  /\ table' = [table EXCEPT ![cur] =
       expiring_scd_table_in_olap(cur, table[cur],
                                  Column(rows_to_update, SurrogateKey(cur)), now)]
  /\ now' = now + 1
  /\ pc' = "insert_updated"
  /\ UNCHANGED <<catalog, seq, cur, df, existing_df, rows_to_insert,
                 rows_to_update, deleted_rows, err, runs, table0, prev, report, report0,
                 date, mpc, mruns>>

\* Line 236 / 273: insert the records of rows_to_update.
InsertUpdated ==
  /\ pc = "insert_updated"
  /\ LET r == inserting_scd_table_in_olap(cur, table[cur], seq[cur], Columns(cur),
                                          rows_to_update, MergedColumns(cur))
     IN /\ table' = [table EXCEPT ![cur] = r.rows]
        /\ seq' = [seq EXCEPT ![cur] = r.seq]
        /\ pc' = IF r.ok
                 THEN PhaseFrom("updated", rows_to_update, deleted_rows, rows_to_insert)
                 ELSE "raised"
        /\ err' = IF r.ok THEN err ELSE "InvalidInputException"
  /\ UNCHANGED <<catalog, now, cur, df, existing_df, rows_to_insert,
                 rows_to_update, deleted_rows, runs, table0, prev, report, report0,
                 date, mpc, mruns>>

\* Line 239 / 276: expire the active rows of the removed keys.
ExpireDeleted ==
  /\ pc = "expire_deleted"
  /\ table' = [table EXCEPT ![cur] =
       expiring_scd_table_in_olap(cur, table[cur],
                                  Column(deleted_rows, SurrogateKey(cur)), now)]
  /\ now' = now + 1
  /\ pc' = PhaseFrom("deleted", rows_to_update, deleted_rows, rows_to_insert)
  /\ UNCHANGED <<catalog, seq, cur, df, existing_df, rows_to_insert,
                 rows_to_update, deleted_rows, err, runs, table0, prev, report, report0,
                 date, mpc, mruns>>

\* Line 242 / 279: insert the records of rows_to_insert.
InsertNew ==
  /\ pc = "insert_new"
  /\ LET r == inserting_scd_table_in_olap(cur, table[cur], seq[cur], Columns(cur),
                                          rows_to_insert, Columns(cur))
     IN /\ table' = [table EXCEPT ![cur] = r.rows]
        /\ seq' = [seq EXCEPT ![cur] = r.seq]
        /\ pc' = IF r.ok THEN "returned" ELSE "raised"
        /\ err' = IF r.ok THEN err ELSE "InvalidInputException"
  /\ UNCHANGED <<catalog, now, cur, df, existing_df, rows_to_insert,
                 rows_to_update, deleted_rows, runs, table0, prev, report, report0,
                 date, mpc, mruns>>

\* except Exception: ROLLBACK; raise -- the statement of an expire phase fails
\* in the store; nothing of the phase is kept and the loader stops.
ExpireRaises ==
  /\ pc \in {"expire_updated", "expire_deleted"}
  /\ now' = now + 1
  /\ pc' = "raised"
  /\ err' = "TransactionFailure"
  /\ UNCHANGED <<catalog, table, seq, cur, df, existing_df, rows_to_insert,
                 rows_to_update, deleted_rows, runs, table0, prev, report, report0,
                 date, mpc, mruns>>

\* except Exception: ROLLBACK; raise -- the batch of an insert phase fails in
\* the store after some of its rows drew a surrogate key; the rows are rolled
\* back, the sequence values drawn may or may not be.
InsertRaises ==
  /\ pc = "insert_new"
  /\ \E drawn \in {0, Len(rows_to_insert)} :
       seq' = [seq EXCEPT ![cur] = @ + drawn]
  /\ pc' = "raised"
  /\ err' = "TransactionFailure"
  /\ UNCHANGED <<catalog, table, now, cur, df, existing_df, rows_to_insert,
                 rows_to_update, deleted_rows, runs, table0, prev, report, report0,
                 date, mpc, mruns>>

Next ==
  \/ LoadBegin
  \/ ExpireUpdated
  \/ InsertUpdated
  \/ ExpireDeleted
  \/ InsertNew
  \/ ExpireRaises
  \/ InsertRaises

Spec == Init /\ [][Next]_vars

----------------------------------------------------------------------------
\* Vocabulary of the properties.

\* Natural keys of a dataframe or of table rows.
KeysOf(t, frame) == {frame[i][NaturalKey(t)] : i \in DOMAIN frame}

\* Natural key and tracked business columns of a row.
Business(t, row) ==
  [c \in {NaturalKey(t)} \cup Range(columns_to_compare(t)) |-> row[c]]

\* A frame reduced to natural key and business columns, as a set.
SnapshotOf(t, frame) == {Business(t, frame[i]) : i \in DOMAIN frame}

\* Indices of the active rows of a key in the target table.
ActiveIdx(t, k) ==
  {i \in DOMAIN table[t] : table[t][i]["is_active"] = TRUE /\ table[t][i][NaturalKey(t)] = k}

\* The loader returned to its caller without an exception.
Returned == pc = "returned"

\* The loader is over and the store did not fail under it: it returned, or it
\* stopped on an exception raised by its own statement.
RunOver == pc = "returned" \/ (pc = "raised" /\ err = "InvalidInputException")

\* Rows of the table that the run found active and that are not active now.
ExpiredByRun ==
  {i \in DOMAIN table0 : table0[i]["is_active"] = TRUE /\ table[cur][i]["is_active"] = FALSE}

\* Rows the run added to the table.
InsertedByRun == {i \in DOMAIN table[cur] : i > Len(table0)}

\* Keys on both sides of the classification whose tracked columns differ in
\* value, a missing value being equal to a missing value.
DiffersInValue(t, l, r) ==
  \E i \in DOMAIN columns_to_compare(t) :
    l[columns_to_compare(t)[i]] # r[columns_to_compare(t)[i]]

ChangedKeys ==
  {k \in KeysOf(cur, df) \cap KeysOf(cur, existing_df) :
     \E i \in DOMAIN df, j \in DOMAIN existing_df :
       /\ df[i][NaturalKey(cur)] = k
       /\ existing_df[j][NaturalKey(cur)] = k
       /\ DiffersInValue(cur, df[i], existing_df[j])}

----------------------------------------------------------------------------
\* C1 (P1, exactly-one-active): when a load has returned, every natural key
\* of its candidate has exactly one active row in the target table.
P1_ExactlyOneActive ==
  Returned => \A k \in KeysOf(cur, df) : Cardinality(ActiveIdx(cur, k)) = 1

\* A second run that returned after inserting a new key and expiring a removed one.
P1_Witness ==
  /\ Returned
  /\ existing_df # <<>>
  /\ rows_to_insert # <<>>
  /\ deleted_rows # <<>>
  /\ \A k \in KeysOf(cur, df) : Cardinality(ActiveIdx(cur, k)) = 1

\* The row of a frame that holds a natural key.
RowOf(t, frame, k) == frame[CHOOSE i \in DOMAIN frame : frame[i][NaturalKey(t)] = k]

\* Tracked columns in which the candidate row of a key differs from the row the
\* previous run's candidate held for it.
ColumnsChangedSincePrev(k) ==
  {c \in Range(columns_to_compare(cur)) :
     RowOf(cur, df, k)[c] # RowOf(cur, prev.df, k)[c]}

\* Between the previous run, which returned, and this one exactly one business
\* attribute of exactly one natural key changed in the candidate.
OneAttributeChangedSincePrev ==
  /\ prev.ok
  /\ KeysOf(cur, prev.df) = KeysOf(cur, df)
  /\ Cardinality({k \in KeysOf(cur, df) : ColumnsChangedSincePrev(k) # {}}) = 1
  /\ \A k \in KeysOf(cur, df) : Cardinality(ColumnsChangedSincePrev(k)) <= 1

\* C2 (P4, one change, one expire+insert pair): a run whose candidate differs
\* from the previous run's in one attribute of one key expires exactly the
\* active row of that key, inserts exactly one active row for it with the
\* candidate's attributes, and leaves every other row as it was.
P4_OneChangeOnePair ==
  (RunOver /\ OneAttributeChangedSincePrev) =>
    LET k == CHOOSE x \in KeysOf(cur, df) : ColumnsChangedSincePrev(x) # {}
    IN /\ Cardinality(ExpiredByRun) = 1
       /\ \A i \in ExpiredByRun : table0[i][NaturalKey(cur)] = k
       /\ Cardinality(InsertedByRun) = 1
       /\ \A i \in InsertedByRun :
            /\ table[cur][i]["is_active"] = TRUE
            /\ Business(cur, table[cur][i]) = Business(cur, RowOf(cur, df, k))
       /\ \A i \in DOMAIN table0 \ ExpiredByRun : table[cur][i] = table0[i]

\* C3 (P3, no-op idempotence): a run with the candidate of the previous run,
\* which returned, leaves the table as that run left it.
P3_NoOpIdempotence ==
  (RunOver /\ prev.ok /\ SnapshotOf(cur, prev.df) = SnapshotOf(cur, df)) =>
    table[cur] = table0

\* C4 (P5, removal closes history): every row that was active when the run
\* started and whose key is absent from the candidate is expired by the run,
\* and the run inserts no row for that key.
P5_RemovalClosesHistory ==
  RunOver =>
    \A j \in DOMAIN existing_df :
      existing_df[j][NaturalKey(cur)] \notin KeysOf(cur, df) =>
        /\ \A i \in DOMAIN table[cur] :
             table[cur][i][SurrogateKey(cur)] = existing_df[j][SurrogateKey(cur)] =>
               /\ table[cur][i]["is_active"] = FALSE
               /\ table[cur][i]["effective_end_date"] # Null
        /\ \A i \in InsertedByRun :
             table[cur][i][NaturalKey(cur)] # existing_df[j][NaturalKey(cur)]

\* C5 (I2): after a run the active rows read back, reduced to natural key and
\* business attributes, are exactly the rows of the candidate, one row each.
I2_ActiveEqualsSnapshot ==
  RunOver =>
    /\ SnapshotOf(cur, read_scd_table_in_olap(table[cur])) = SnapshotOf(cur, df)
    /\ Len(read_scd_table_in_olap(table[cur])) = Len(df)

I3_SurrogateKeys ==
  [][\A t \in Tables :
       /\ Len(table'[t]) >= Len(table[t])
       /\ \A i \in DOMAIN table[t] :
            table'[t][i][SurrogateKey(t)] = table[t][i][SurrogateKey(t)]
       /\ \A i \in DOMAIN table'[t] :
            /\ i > 1 => table'[t][i - 1][SurrogateKey(t)] < table'[t][i][SurrogateKey(t)]
            /\ i > Len(table[t]) =>
                 /\ table'[t][i][SurrogateKey(t)] >= seq[t]
                 /\ table'[t][i][SurrogateKey(t)] < seq'[t]
       /\ seq'[t] >= seq[t]]_vars

\* A run inserted rows after an insert of the run before it had failed and
\* left sequence values drawn: the rows carry keys past the lost ones.
I3_Witness ==
  /\ Returned
  /\ ~prev.ok
  /\ runs = 2
  /\ Len(table[cur]) >= 2
  /\ table[cur][1][SurrogateKey(cur)] > 1
  /\ table[cur][1][SurrogateKey(cur)] < table[cur][2][SurrogateKey(cur)]

\* C8 (classifier, key on both sides): a key of both the candidate and the
\* active set is in the update set exactly when a tracked attribute differs in
\* value, null being equal to null; otherwise it is in none of the three sets.
Classifier_UpdateIffDiffers ==
  \A k \in KeysOf(cur, df) \cap KeysOf(cur, existing_df) :
    /\ k \in KeysOf(cur, rows_to_update) <=> k \in ChangedKeys
    /\ k \notin ChangedKeys =>
         k \notin KeysOf(cur, rows_to_insert) \cup KeysOf(cur, rows_to_update)
                    \cup KeysOf(cur, deleted_rows)

\* The three sets of a classification have pairwise disjoint natural keys.
ClassifierDisjoint ==
  /\ KeysOf(cur, rows_to_insert) \cap KeysOf(cur, rows_to_update) = {}
  /\ KeysOf(cur, rows_to_insert) \cap KeysOf(cur, deleted_rows) = {}
  /\ KeysOf(cur, rows_to_update) \cap KeysOf(cur, deleted_rows) = {}

\* C9 as stated (classifier output guarantee): the three sets are disjoint
\* and their keys are together exactly the keys of candidate and active set.
Classifier_Partition ==
  /\ ClassifierDisjoint
  /\ KeysOf(cur, rows_to_insert) \cup KeysOf(cur, rows_to_update) \cup KeysOf(cur, deleted_rows)
       = KeysOf(cur, df) \cup KeysOf(cur, existing_df)

\* C9 as amended: the three sets are disjoint; the insert set holds exactly the
\* keys only in the candidate, the expire-only set exactly the keys only in
\* the active set, the update set only keys of both sides and every key of
\* both sides whose attributes differ in value.  Keys of both sides that are
\* not classified as changed are in none of the sets.
Classifier_PartitionAmended ==
  /\ ClassifierDisjoint
  /\ KeysOf(cur, rows_to_insert) = KeysOf(cur, df) \ KeysOf(cur, existing_df)
  /\ KeysOf(cur, deleted_rows) = KeysOf(cur, existing_df) \ KeysOf(cur, df)
  /\ KeysOf(cur, rows_to_update) \subseteq KeysOf(cur, df) \cap KeysOf(cur, existing_df)
  /\ ChangedKeys \subseteq KeysOf(cur, rows_to_update)

\* A classification with a key only in the candidate, and a key of both sides
\* that is unchanged and in none of the three sets.
Classifier_Witness ==
  /\ rows_to_insert # <<>>
  /\ existing_df # <<>>
  /\ \E k \in KeysOf(cur, df) \cap KeysOf(cur, existing_df) :
       k \notin KeysOf(cur, rows_to_insert) \cup KeysOf(cur, rows_to_update)
                  \cup KeysOf(cur, deleted_rows)

\* C10 (row lifecycle): no step removes a row; a step leaves every existing
\* row as it is or expires it, and it expires only an active row without end
\* date: is_active becomes false, effective_end_date is set, nothing else of
\* the row changes.
RowLifecycle ==
  [][\A t \in Tables :
       /\ Len(table'[t]) >= Len(table[t])
       /\ \A i \in DOMAIN table[t] :
            \/ table'[t][i] = table[t][i]
            \/ /\ table[t][i]["is_active"] = TRUE
               /\ table[t][i]["effective_end_date"] = Null
               /\ table'[t][i]["is_active"] = FALSE
               /\ table'[t][i]["effective_end_date"] # Null
               /\ table'[t][i] =
                    [table[t][i] EXCEPT !["is_active"] = FALSE,
                                        !["effective_end_date"] = table'[t][i]["effective_end_date"]]]_vars

\* A table that holds a row expired by the second run next to a row that run
\* inserted and a row it left alone.
RowLifecycle_Witness ==
  /\ Returned
  /\ ExpiredByRun # {}
  /\ InsertedByRun # {}
  /\ \A i \in ExpiredByRun :
       table[cur][i] = [table0[i] EXCEPT !["is_active"] = FALSE,
                                         !["effective_end_date"] = now - 1]

----------------------------------------------------------------------------
\* Runs of load_user_profiling on what the transform returns when the users
\* table holds several rows with one User_ID: the transform left-joins
\* per-user aggregates onto the users rows and removes no duplicate, so the
\* candidate holds the natural key once per source row.

\* Candidates of up to MaxKey rows, natural keys repeated or not.
SourceFrames(t) ==
  LET rows == {[c \in {NaturalKey(t), Columns(t)[2]} |->
                  IF c = NaturalKey(t) THEN k ELSE v] :
                 k \in Keys(t), v \in AttrVals(t)}
  IN UNION {[1..n -> rows] : n \in 0..MaxKey}

InitDup == Init /\ cur = "user_profiling"

LoadBeginAnyRows ==
  /\ pc \in {"ready", "returned", "raised"}
  /\ runs < MaxRuns
  /\ \E f \in SourceFrames(cur) : Load(cur, f)
  /\ UNCHANGED mainvars

NextDup ==
  \/ LoadBeginAnyRows
  \/ ExpireUpdated
  \/ InsertUpdated
  \/ ExpireDeleted
  \/ InsertNew
  \/ ExpireRaises
  \/ InsertRaises

SpecDup == InitDup /\ [][NextDup]_vars

\* The active set read at the start of the run holds a natural key twice.
MultiActiveRead ==
  \E i, j \in DOMAIN existing_df :
    i # j /\ existing_df[i][NaturalKey(cur)] = existing_df[j][NaturalKey(cur)]

\* C11 (InvariantViolation): a run whose active set holds more than one
\* active row for a natural key ends in the classification with an
\* InvariantViolation error and leaves the table as it found it: no row is
\* expired and no row is inserted.
InvariantViolationSurfaced ==
  (runs > 0 /\ MultiActiveRead) =>
    /\ pc = "raised"
    /\ err = "InvariantViolation"
    /\ table[cur] = table0

----------------------------------------------------------------------------
\* C12 (Table Definition Manager idempotence): a table and its sequence are
\* created only when absent, empty and starting at 1; the call at the start
\* of a run on an existing table leaves its rows and its sequence as they
\* are, and the next value of the sequence stays above every surrogate key
\* of the table, so keys issued later are greater than those issued before.
TableDefinitionIdempotent ==
  [][\A t \in Tables :
       /\ t \in catalog => t \in catalog'
       /\ (runs' # runs /\ t \in catalog) =>
            (table'[t] = table[t] /\ seq'[t] = seq[t])
       /\ (t \notin catalog /\ t \in catalog') =>
            (runs' # runs /\ table'[t] = <<>> /\ seq'[t] = 1)
       /\ t \in catalog' =>
            \A i \in DOMAIN table'[t] : table'[t][i][SurrogateKey(t)] < seq'[t]]_vars

\* A second run found rows in its table and added rows to it, each with a
\* key above the keys it found.
TableDefinition_Witness ==
  /\ Returned
  /\ runs = 2
  /\ table0 # <<>>
  /\ InsertedByRun # {}
  /\ \A i \in InsertedByRun, j \in DOMAIN table0 :
       table[cur][i][SurrogateKey(cur)] > table0[j][SurrogateKey(cur)]

----------------------------------------------------------------------------
\* main: both loaders in sequence, then the report of the run date.  main is
\* run on sources with at most one entity per type and one value besides the
\* missing or zero one; what the loaders do with several keys is the subject
\* of Spec.

SingleEntity(t) ==
  {s \in Snapshots(t) : DOMAIN s \subseteq {1} /\ \A k \in DOMAIN s : s[k] <= 1}

\* user_profiling_selected_columns / transaction_summary_selected_columns:
\* the natural key and the business columns.
selected_columns(t) == SubSeq(Columns(t), 1, Len(Columns(t)) - 3)

\* if_sheet_exists="overlay": the rows are written over the sheet that
\* exists and the rows of the sheet below them stay.
generate_xlsx_report_Overlay(file, frame, sheet_name) ==
  IF file = <<>>
  THEN <<[name |-> sheet_name, rows |-> frame]>>
  ELSE IF \E i \in DOMAIN file : file[i].name = sheet_name
  THEN [i \in DOMAIN file |->
          IF file[i].name = sheet_name
          THEN [name |-> sheet_name,
                rows |-> frame \o SubSeq(file[i].rows, Len(frame) + 1, Len(file[i].rows))]
          ELSE file[i]]
  ELSE Append(file, [name |-> sheet_name, rows |-> frame])

\* A workbook is the sequence of its sheets, <<>> while the file does not
\* exist.  A new file gets the sheet; an existing file gets it appended, or
\* in the place of the sheet of that name (if_sheet_exists="replace").
generate_xlsx_report(file, frame, sheet_name) ==
  IF file = <<>>
  THEN <<[name |-> sheet_name, rows |-> frame]>>
  ELSE IF \E i \in DOMAIN file : file[i].name = sheet_name
  THEN [i \in DOMAIN file |->
          IF file[i].name = sheet_name
          THEN [name |-> sheet_name, rows |-> frame]
          ELSE file[i]]
  ELSE Append(file, [name |-> sheet_name, rows |-> frame])

\* read_scd_table_in_olap(table_name, columns=selected columns)
ReportFrame(t) == Project(read_scd_table_in_olap(table[t]), selected_columns(t))

\* init_scd_table_in_olap raises (except: ROLLBACK; raise): the loader stops
\* after stamping its candidate, nothing is created, read or classified.
LoadInitRaises(t, candidate) ==
  /\ df' = AddHistoryColumns(candidate, now)
  /\ existing_df' = <<>>
  /\ rows_to_insert' = <<>>
  /\ rows_to_update' = <<>>
  /\ deleted_rows' = <<>>
  /\ table0' = table[t]
  /\ pc' = "raised"
  /\ err' = "TransactionFailure"
  /\ now' = now + 1
  /\ runs' = runs + 1
  /\ prev' = [ok |-> pc = "returned", df |-> df, interrupted |-> LeftWithoutActive]
  /\ cur' = t
  /\ UNCHANGED <<catalog, table, seq>>

\* try: load(...) except Exception: pass -- main goes on after a loader
\* that raised.
MainContinues_Swallow == pc \in {"returned", "raised"}

\* No exception is on its way out of main: main has no try/except, so it
\* goes on to its next statement only when the loader returned.
MainContinues == pc = "returned"

\* No run of main is under way: none started, the last one finished, or it
\* ended on the exception of a loader.
MainIdle == mpc \in {"idle", "finished"} \/ pc = "raised"

InitMain == Init /\ cur = "user_profiling"

\* Lines 318-325: extract, transform, load_user_profiling up to its
\* classification.
MainBegin ==
  /\ MainIdle
  /\ mruns < MaxRuns
  /\ \E s \in SingleEntity("user_profiling") :
       \/ Load("user_profiling", transform("user_profiling", s))
       \/ LoadInitRaises("user_profiling", transform("user_profiling", s))
  /\ \E d \in Dates : date' = d
  /\ mpc' = "load_user_profiling"
  /\ mruns' = mruns + 1
  /\ report0' = report
  /\ UNCHANGED report

\* Line 326: load_transaction_summary up to its classification.
MainLoadTransactionSummary ==
  /\ mpc = "load_user_profiling"
  /\ MainContinues
  /\ \E s \in SingleEntity("transaction_summary") :
       \/ Load("transaction_summary", transform("transaction_summary", s))
       \/ LoadInitRaises("transaction_summary", transform("transaction_summary", s))
  /\ mpc' = "load_transaction_summary"
  /\ UNCHANGED <<report, report0, date, mruns>>

\* Lines 346-347: the active user_profiling rows go to their sheet.
ReportUserProfiling ==
  /\ mpc = "load_transaction_summary"
  /\ MainContinues
  /\ report' = [report EXCEPT ![date] =
       generate_xlsx_report(@, ReportFrame("user_profiling"), "user_profiling")]
  /\ mpc' = "report_user_profiling"
  /\ UNCHANGED <<catalog, table, seq, now, cur, pc, df, existing_df, rows_to_insert,
                 rows_to_update, deleted_rows, err, runs, table0, prev, report0,
                 date, mruns>>

\* Lines 355-358: the active transaction_summary rows go to their sheet.
ReportTransactionSummary ==
  /\ mpc = "report_user_profiling"
  /\ report' = [report EXCEPT ![date] =
       generate_xlsx_report(@, ReportFrame("transaction_summary"), "transaction_summary")]
  /\ mpc' = "finished"
  /\ UNCHANGED <<catalog, table, seq, now, cur, pc, df, existing_df, rows_to_insert,
                 rows_to_update, deleted_rows, err, runs, table0, prev, report0,
                 date, mruns>>

NextMain ==
  \/ MainBegin
  \/ MainLoadTransactionSummary
  \/ ReportUserProfiling
  \/ ReportTransactionSummary
  \/ ExpireUpdated
  \/ InsertUpdated
  \/ ExpireDeleted
  \/ InsertNew
  \/ ExpireRaises
  \/ InsertRaises

SpecMain == InitMain /\ [][NextMain]_vars

\* Sheets of a workbook that carry a name.
Sections(file, sheet_name) == {i \in DOMAIN file : file[i].name = sheet_name}

\* C13 (report export): when a run of main has finished, the report of its
\* run date holds one section per entity type and nothing else, and each
\* section holds the rows active in its table; this holds whatever the
\* report held when the run started, so a re-run replaces the sections.
ReportHoldsActiveRows ==
  mpc = "finished" =>
    /\ Len(report[date]) = Cardinality(Tables)
    /\ \A t \in Tables :
         /\ Cardinality(Sections(report[date], t)) = 1
         /\ \A i \in Sections(report[date], t) : report[date][i].rows = ReportFrame(t)
    /\ \A d \in Dates \ {date} : report[d] = report0[d]

\* A re-run for a date whose report held both sections, with other rows.
ReportExport_Witness ==
  /\ mpc = "finished"
  /\ mruns = 2
  /\ Len(report0[date]) = 2
  /\ \A t \in Tables :
       \E i \in Sections(report0[date], t), j \in Sections(report[date], t) :
         /\ report0[date][i].rows # <<>>
         /\ report[date][j].rows # report0[date][i].rows

----------------------------------------------------------------------------
\* Surrogate keys of the active rows the classification marked for expiry.
KeysToExpire ==
  {rows_to_update[i][SurrogateKey(cur)] : i \in DOMAIN rows_to_update}
    \cup {deleted_rows[i][SurrogateKey(cur)] : i \in DOMAIN deleted_rows}

\* C14 (phase ordering): when a run is over, the rows it expired are the
\* active rows of every key of rows_to_update and deleted_rows, and the rows
\* it inserted are the rows of rows_to_insert and rows_to_update; and in no
\* state of the run is a row inserted while a row to expire is still active.
PhaseOrdering ==
  /\ RunOver =>
       /\ {table0[i][SurrogateKey(cur)] : i \in ExpiredByRun} = KeysToExpire
       /\ {Business(cur, table[cur][i]) : i \in InsertedByRun}
            = SnapshotOf(cur, rows_to_insert) \cup SnapshotOf(cur, rows_to_update)
  /\ InsertedByRun # {} =>
       \A i \in DOMAIN table[cur] :
         table[cur][i][SurrogateKey(cur)] \in KeysToExpire
           => table[cur][i]["is_active"] = FALSE

----------------------------------------------------------------------------
\* C15 (error propagation): the step on which a phase fails (schema ensure,
\* expire, insert) changes no row of any table and no report, so the rows
\* committed by earlier phases stay; and once a loader has raised, the run
\* of main does nothing more: no load starts, no row, table or report
\* changes until another run of main starts.
ErrorPropagation ==
  [][/\ (pc' = "raised" /\ (pc # "raised" \/ runs' # runs)) =>
          (table' = table /\ catalog' = catalog /\ report' = report)
     /\ (pc = "raised" /\ mruns' = mruns) =>
          (runs' = runs /\ table' = table /\ catalog' = catalog /\ report' = report)]_vars

\* transaction_summary failed in a run of main that had loaded
\* user_profiling: the user row is in its table, no report was written.
ErrorPropagation_Witness ==
  /\ pc = "raised"
  /\ mruns = 1
  /\ cur = "transaction_summary"
  /\ mpc = "load_transaction_summary"
  /\ ActiveIdx("user_profiling", 1) # {}
  /\ report[date] = <<>>

----------------------------------------------------------------------------
\* C16 (history metadata consistency): in every state, between runs
\* included, a row of a table is active exactly when it has no
\* effective_end_date, so every expired row has one; and the rows a run
\* inserted are active and have none.
HistoryMetadataConsistent ==
  /\ \A t \in Tables : \A i \in DOMAIN table[t] :
       (table[t][i]["is_active"] = TRUE) <=> (table[t][i]["effective_end_date"] = Null)
  /\ \A i \in InsertedByRun :
       /\ table[cur][i]["is_active"] = TRUE
       /\ table[cur][i]["effective_end_date"] = Null

\* Between two runs: the run that ended expired a row of an earlier run and
\* inserted a row.
HistoryMetadata_Witness ==
  /\ pc \in {"returned", "raised"}
  /\ InsertedByRun # {}
  /\ \E i \in ExpiredByRun :
       /\ table[cur][i]["effective_end_date"] # Null
       /\ table[cur][i]["effective_end_date"] > table[cur][i]["effective_start_date"]

----------------------------------------------------------------------------
\* One loader run once more than in Spec, so that a run can follow a run that
\* stopped between its expire and its insert, which itself followed a run
\* that inserted.
LoadBeginAgain ==
  /\ pc \in {"ready", "returned", "raised"}
  /\ runs < MaxRuns + 1
  /\ \E s \in Snapshots(cur) : Load(cur, transform(cur, s))
  /\ UNCHANGED mainvars

NextRecovery ==
  \/ LoadBeginAgain
  \/ ExpireUpdated
  \/ InsertUpdated
  \/ ExpireDeleted
  \/ InsertNew
  \/ ExpireRaises
  \/ InsertRaises

SpecRecovery == Init /\ [][NextRecovery]_vars

\* C17 (recovery after an interrupted run): when the previous run stopped
\* after expiring a changed key and before inserting its replacement, and
\* the candidate of this run holds the key, then this run classifies the key
\* as new and, once over, has inserted exactly one row for it, active and
\* with a surrogate key above those it found, has left the rows it found for
\* the key as they were, and the key has exactly one active row.
RecoveryAfterInterruptedRun ==
  RunOver =>
    \A k \in prev.interrupted \cap KeysOf(cur, df) :
      /\ k \in KeysOf(cur, rows_to_insert)
      /\ Cardinality({i \in InsertedByRun : table[cur][i][NaturalKey(cur)] = k}) = 1
      /\ \A i \in InsertedByRun :
           table[cur][i][NaturalKey(cur)] = k =>
             /\ table[cur][i]["is_active"] = TRUE
             /\ \A j \in DOMAIN table0 :
                  table[cur][i][SurrogateKey(cur)] > table0[j][SurrogateKey(cur)]
      /\ \A j \in DOMAIN table0 :
           table0[j][NaturalKey(cur)] = k => table[cur][j] = table0[j]
      /\ Cardinality(ActiveIdx(cur, k)) = 1

----------------------------------------------------------------------------
\* C18 (non-overlapping history intervals): two versions of a natural key in
\* a table do not overlap, the later one starting no earlier than the
\* earlier one ended; and the replacement row a run hands to the insert for
\* a version it expired carries an effective_start_date that is not earlier
\* than the effective_end_date the run gave the expired version.
NonOverlappingIntervals ==
  /\ \A t \in Tables : \A i, j \in DOMAIN table[t] :
       (i < j /\ table[t][i][NaturalKey(t)] = table[t][j][NaturalKey(t)]) =>
         /\ table[t][i]["effective_end_date"] # Null
         /\ table[t][j]["effective_start_date"] >= table[t][i]["effective_end_date"]
  /\ \A i \in ExpiredByRun : \A j \in DOMAIN rows_to_update :
       rows_to_update[j][SurrogateKey(cur)] = table0[i][SurrogateKey(cur)] =>
         rows_to_update[j]["effective_start_date"] >= table[cur][i]["effective_end_date"]

====
